---- MODULE Spec2Model ----
(***************************************************************************)
(* Model of network/compression.go: gzipCompressor, a Compressor that      *)
(* reuses one bytes.Buffer / gzip.Writer pair for Compress and one          *)
(* bytes.Reader / gzip.Reader pair for Decompress.                          *)
(*                                                                         *)
(* The standard-library objects the methods call (bytes.Buffer,            *)
(* bytes.Reader, gzip.Writer, gzip.Reader, io.ReadAll) are modelled by      *)
(* what those calls do to the bytes: a gzip member is the 10-byte header,   *)
(* a deflate body and the 8-byte trailer (checksum, length).  The deflate   *)
(* body is written as one final stored block; the 32-bit checksum is a pair *)
(* of 16-bit running sums standing for CRC-32.  Lengths stay far below 2^32, *)
(* so the uint32 size never wraps.                                          *)
(***************************************************************************)
EXTENDS Integers, Sequences, FiniteSets, TLC

VARIABLES
    writerInitialised,  \* gzipCompressor.writerInitialised
    readerInitialised,  \* gzipCompressor.readerInitialised
    writeBuffer,        \* gzipCompressor.writeBuffer  (*bytes.Buffer)
    gzipWriter,         \* gzipCompressor.gzipWriter   (*gzip.Writer)
    bytesReader,        \* gzipCompressor.bytesReader  (*bytes.Reader)
    gzipReader,         \* gzipCompressor.gzipReader   (*gzip.Reader)
    lastCompress,       \* the most recent Compress call: argument, result, error, path
    lastDecompress,     \* the most recent Decompress call: argument, result, error, path
    lastCheck,          \* the most recent IsCompressable / IsDecompressable call
    held,               \* a result slice the caller kept from an earlier call
    peer,               \* a second instance, of another process
    lastPeer,           \* the most recent Decompress call on the second instance
    lock,               \* the callers' lock around the shared instance: its holder
    callers             \* each caller of the shared instance: position, call, result

vars == <<writerInitialised, readerInitialised, writeBuffer, gzipWriter,
          bytesReader, gzipReader, lastCompress, lastDecompress, lastCheck,
          held, peer, lastPeer, lock, callers>>

----------------------------------------------------------------------------
(* Bounds and program constants *)

\* Longest message of the exhaustively enumerated short messages.
MaxLen == 2

\* const compressionThresholdBytes = 128
compressionThresholdBytes == 128

\* A nil error.
Nil == "nil"

\* A nil pointer or nil slice.
NilPtr == [nil |-> TRUE]

IsNil(x) == x = NilPtr

\* The errors of io, compress/gzip and compress/flate the calls can return.
EOF == "io.EOF"
ErrUnexpectedEOF == "io.ErrUnexpectedEOF"
ErrHeader == "gzip.ErrHeader"
ErrChecksum == "gzip.ErrChecksum"
CorruptInputError == "flate.CorruptInputError"
errWriterClosed == "flate: closed writer"
NilDeref == "panic: nil pointer dereference"

\* The byte values short messages are built from ('A', 'B').
Alphabet == {65, 66}

----------------------------------------------------------------------------
(* Bytes *)

Min(a, b) == IF a < b THEN a ELSE b

Take(s, n) == SubSeq(s, 1, Min(n, Len(s)))

Drop(s, n) == SubSeq(s, Min(n, Len(s)) + 1, Len(s))

\* n bytes of value b
Fill(n, b) == [i \in 1..n |-> b]

\* little-endian encodings, as binary.LittleEndian.PutUint16 / PutUint32
LE16(n) == <<n % 256, (n \div 256) % 256>>

LE32(n) == <<n % 256, (n \div 256) % 256, (n \div 65536) % 256,
             (n \div 16777216) % 256>>

FromLE16(s) == s[1] + 256 * s[2]

\* A 32-bit checksum is kept as its two 16-bit halves.
crc32Zero == [lo |-> 0, hi |-> 0]

RECURSIVE crc32Sums(_, _, _)
\* Over the bytes p[a..b]: their sum s and their sum w weighted by the distance
\* to b, both modulo 65521 (computed by halves).
crc32Sums(p, a, b) ==
    IF a > b THEN [s |-> 0, w |-> 0]
    ELSE IF a = b THEN [s |-> p[a] + 1, w |-> p[a] + 1]
    ELSE IF a + 1 = b THEN [s |-> p[a] + p[b] + 2, w |-> 2 * (p[a] + 1) + p[b] + 1]
    ELSE LET m == (a + b) \div 2
             l == crc32Sums(p, a, m)
             r == crc32Sums(p, m + 1, b)
         IN [s |-> (l.s + r.s) % 65521,
             w |-> (l.w + (b - m) * l.s + r.w) % 65521]

\* The running 32-bit checksum of the uncompressed bytes (hash/crc32.Update),
\* here two 16-bit running sums modulo 65521: lo adds every byte (plus one),
\* hi adds every value lo takes.
crc32Update(digest, p) ==
    LET c == crc32Sums(p, 1, Len(p))
    IN [lo |-> (digest.lo + c.s) % 65521,
        hi |-> (digest.hi + Len(p) * digest.lo + c.w) % 65521]

\* le.PutUint32 of a checksum.
crc32Bytes(digest) == LE16(digest.lo) \o LE16(digest.hi)

----------------------------------------------------------------------------
(* The gzip container *)

\* The header gzip.Writer writes: ID1 ID2 CM=8 FLG=0 MTIME=0 XFL=0 OS=255.
gzipHeader == <<31, 139, 8, 0, 0, 0, 0, 0, 0, 255>>

\* The deflate body: one final stored block, BFINAL=1 BTYPE=00, LEN, NLEN, data.
deflateStored(p) == <<1>> \o LE16(Len(p)) \o LE16(65535 - Len(p)) \o p

\* A trailer whose length field is left zero.
gzipTrailer_noSize(digest, size) == crc32Bytes(digest) \o LE32(0)

\* The trailer: the checksum and the length of the uncompressed bytes.
gzipTrailer(digest, size) == crc32Bytes(digest) \o LE32(size)

\* "header is 10 bytes"
gzipHeaderLen == Len(gzipHeader)

----------------------------------------------------------------------------
(* The instance.  The operators below take and return the instance as a     *)
(* record g of the struct's six fields, plus g.did: the constructions and    *)
(* resets the current call has performed, in order.                          *)

\* NewCompressor: &gzipCompressor{}, every field its zero value.
NewCompressor ==
    [writerInitialised |-> FALSE, readerInitialised |-> FALSE,
     writeBuffer |-> NilPtr, gzipWriter |-> NilPtr,
     bytesReader |-> NilPtr, gzipReader |-> NilPtr,
     did |-> <<>>]

----------------------------------------------------------------------------
(* Write side: bytes.Buffer and gzip.Writer *)

\* var buf bytes.Buffer
newBuffer == [buf |-> <<>>]

\* bytes.Buffer.Write: appends, never fails.
bufferWrite(g, p) == [g EXCEPT !.writeBuffer.buf = @ \o p]

\* A Reset that leaves the bytes in the buffer.
bufferReset_keeps(g) == [g EXCEPT !.did = Append(@, "Buffer.Reset")]

\* bytes.Buffer.Reset: empties the buffer, keeps the object.
bufferReset(g) == [g EXCEPT !.writeBuffer.buf = <<>>, !.did = Append(@, "Buffer.Reset")]

\* flate.NewWriter / compressor.Reset: nothing pending, not closed.
flateNewWriter == [pending |-> <<>>, err |-> Nil]

\* gzip.NewWriter(w): a Writer on g.writeBuffer, no header written, no compressor yet.
gzipNewWriter ==
    [w |-> "writeBuffer", wroteHeader |-> FALSE, closed |-> FALSE, err |-> Nil,
     size |-> 0, digest |-> crc32Zero, compressor |-> NilPtr]

\* gzip.Writer.Reset(w): init keeps the compressor object, reset, and clears the rest.
gzipWriterReset(g) ==
    [g EXCEPT !.gzipWriter =
                  [gzipNewWriter EXCEPT
                      !.compressor = IF IsNil(g.gzipWriter.compressor) THEN NilPtr
                                     ELSE flateNewWriter],
              !.did = Append(@, "Writer.Reset")]

\* gzip.Writer.Write, first part: the header and the compressor on the first write.
gzipWriterWrite_header(g) ==
    IF g.gzipWriter.wroteHeader THEN g
    ELSE [bufferWrite(g, gzipHeader) EXCEPT
             !.gzipWriter.wroteHeader = TRUE,
             !.gzipWriter.compressor = IF IsNil(@) THEN flateNewWriter ELSE @]

\* gzip.Writer.Write, second part: size, digest and the compressor's Write,
\* which fails once the compressor is closed.
gzipWriterWrite_body(g, p) ==
    [g |-> [g EXCEPT
               !.gzipWriter.size = @ + Len(p),
               !.gzipWriter.digest = crc32Update(@, p),
               !.gzipWriter.compressor.pending =
                   IF g.gzipWriter.compressor.err = Nil THEN @ \o p ELSE @,
               !.gzipWriter.err = g.gzipWriter.compressor.err],
     err |-> g.gzipWriter.compressor.err]

\* gzip.Writer.Write(p)
gzipWriterWrite(g, p) ==
    IF g.gzipWriter.err # Nil THEN [g |-> g, err |-> g.gzipWriter.err]
    ELSE gzipWriterWrite_body(gzipWriterWrite_header(g), p)

\* compressor.Close: the pending bytes go out as the deflate body, and the
\* compressor is closed.
flateClose(g) ==
    IF g.gzipWriter.compressor.err = errWriterClosed THEN g
    ELSE [bufferWrite(g, deflateStored(g.gzipWriter.compressor.pending)) EXCEPT
             !.gzipWriter.compressor = [pending |-> <<>>, err |-> errWriterClosed]]

\* gzip.Writer.Close, last part: the trailer follows the deflate body.
gzipWriterClose_trailer(g) ==
    [g |-> bufferWrite(g, gzipTrailer(g.gzipWriter.digest, g.gzipWriter.size)),
     err |-> Nil]

\* gzip.Writer.Close, once the header is known to be written.
gzipWriterClose_flush(g) ==
    IF g.gzipWriter.err # Nil THEN [g |-> g, err |-> g.gzipWriter.err]
    ELSE IF g.gzipWriter.compressor.err \notin {Nil, errWriterClosed}
         THEN [g |-> [g EXCEPT !.gzipWriter.err = g.gzipWriter.compressor.err],
               err |-> g.gzipWriter.compressor.err]
    ELSE gzipWriterClose_trailer(flateClose(g))

\* gzip.Writer.Close: flushes the deflate body and writes the trailer.
gzipWriterClose(g) ==
    IF g.gzipWriter.err # Nil THEN [g |-> g, err |-> g.gzipWriter.err]
    ELSE IF g.gzipWriter.closed THEN [g |-> g, err |-> Nil]
    ELSE IF g.gzipWriter.wroteHeader
         THEN gzipWriterClose_flush([g EXCEPT !.gzipWriter.closed = TRUE])
    ELSE gzipWriterClose_flush(
             gzipWriterWrite([g EXCEPT !.gzipWriter.closed = TRUE], <<>>).g)

\* resetWriter without writeBuffer.Reset(): the buffer keeps the earlier output.
resetWriter_keepsBuffer(g) ==
    IF ~g.writerInitialised
    THEN [g EXCEPT !.writeBuffer = newBuffer,
                   !.gzipWriter = gzipNewWriter,
                   !.writerInitialised = TRUE,
                   !.did = @ \o <<"new bytes.Buffer", "gzip.NewWriter">>]
    ELSE gzipWriterReset(g)

\* resetWriter without gzipWriter.Reset(): the writer stays closed.
resetWriter_keepsWriter(g) ==
    IF ~g.writerInitialised
    THEN [g EXCEPT !.writeBuffer = newBuffer,
                   !.gzipWriter = gzipNewWriter,
                   !.writerInitialised = TRUE,
                   !.did = @ \o <<"new bytes.Buffer", "gzip.NewWriter">>]
    ELSE bufferReset(g)

\* resetWriter that never sets writerInitialised: every call constructs anew.
resetWriter_neverInitialised(g) ==
    [g EXCEPT !.writeBuffer = newBuffer,
              !.gzipWriter = gzipNewWriter,
              !.did = @ \o <<"new bytes.Buffer", "gzip.NewWriter">>]

\* resetWriter that clears the whole instance, the read side with it, before
\* it resets or constructs the write side.
resetWriter_dropsReader(g) ==
    IF ~g.writerInitialised
    THEN [g EXCEPT !.writeBuffer = newBuffer,
                   !.gzipWriter = gzipNewWriter,
                   !.writerInitialised = TRUE,
                   !.bytesReader = NilPtr,
                   !.gzipReader = NilPtr,
                   !.did = @ \o <<"new bytes.Buffer", "gzip.NewWriter">>]
    ELSE [gzipWriterReset(bufferReset(g)) EXCEPT !.bytesReader = NilPtr,
                                                 !.gzipReader = NilPtr]

\* resetWriter
resetWriter(g) ==
    IF ~g.writerInitialised
    THEN [g EXCEPT !.writeBuffer = newBuffer,
                   !.gzipWriter = gzipNewWriter,
                   !.writerInitialised = TRUE,
                   !.did = @ \o <<"new bytes.Buffer", "gzip.NewWriter">>]
    ELSE gzipWriterReset(bufferReset(g))

\* A fresh slice holding a copy of b: make([]byte, len(b)); copy(...).
copyOf(b) == [mem |-> "fresh", bytes |-> b]

\* A call that returns nil and the error.
failed(g, err) == [g |-> g, out |-> NilPtr, err |-> err]

\* Compress whose result is writeBuffer.Bytes() itself instead of a copy of it.
Compress_returnsBuffer(c) ==
    IF c.err # Nil THEN failed(c.g, c.err)
    ELSE [g |-> c.g, out |-> [mem |-> "writeBuffer", bytes |-> c.g.writeBuffer.buf],
          err |-> Nil]

\* Compress, after gzipWriter.Close() returned c: the error, or a copy of the
\* buffer's bytes.
Compress_afterClose(c) ==
    IF c.err # Nil THEN failed(c.g, c.err)
    ELSE [g |-> c.g, out |-> copyOf(c.g.writeBuffer.buf), err |-> Nil]

\* Compress without gzipWriter.Close(): nothing is flushed, no trailer written.
Compress_noClose(w) ==
    IF w.err # Nil THEN failed(w.g, w.err)
    ELSE [g |-> w.g, out |-> copyOf(w.g.writeBuffer.buf), err |-> Nil]

\* Compress, after gzipWriter.Write(msg) returned w.
Compress_afterWrite(w) ==
    IF w.err # Nil THEN failed(w.g, w.err)
    ELSE Compress_afterClose(gzipWriterClose(w.g))

\* Compress, after resetWriter().
Compress_afterReset(g, msg) ==
    IF IsNil(g.gzipWriter) \/ IsNil(g.writeBuffer) THEN failed(g, NilDeref)
    ELSE Compress_afterWrite(gzipWriterWrite(g, msg))

\* Compress
Compress(g, msg) == Compress_afterReset(resetWriter(g), msg)

----------------------------------------------------------------------------
(* Read side: bytes.Reader, gzip.Reader, flate's decompressor, io.ReadAll *)

\* bytes.NewReader(msg) / bytes.Reader.Reset(msg): the bytes and the read offset.
bytesNewReader(msg) == [s |-> msg, i |-> 0]

\* The magic and method bytes of the header at offset i of s.
headerOK(s, i) == s[i + 1] = 31 /\ s[i + 2] = 139 /\ s[i + 3] = 8

\* gzip.Reader.readHeader on the bytes rd.s from offset rd.i: io.ReadFull of the
\* ten header bytes (io.EOF when none is left, io.ErrUnexpectedEOF when too
\* few), then the magic and method bytes.  The optional header fields are not
\* modelled: every modelled input with the magic bytes has FLG = 0.
readHeader(rd) ==
    IF Len(rd.s) - rd.i = 0 THEN [i |-> rd.i, err |-> EOF]
    ELSE IF Len(rd.s) - rd.i < 10 THEN [i |-> Len(rd.s), err |-> ErrUnexpectedEOF]
    ELSE IF ~headerOK(rd.s, rd.i) THEN [i |-> rd.i + 10, err |-> ErrHeader]
    ELSE [i |-> rd.i + 10, err |-> Nil]

RECURSIVE inflate(_, _, _)

\* A stored block whose LEN and NLEN fields end at offset from: its n data
\* bytes, or as many as are left.
inflate_stored(s, from, n, nn, final, acc) ==
    IF nn # 65535 - n THEN [data |-> acc, err |-> CorruptInputError, i |-> from]
    ELSE IF Len(s) - from < n
         THEN [data |-> acc \o SubSeq(s, from + 1, Len(s)),
               err |-> ErrUnexpectedEOF, i |-> Len(s)]
    ELSE IF final
         THEN [data |-> acc \o SubSeq(s, from + 1, from + n), err |-> EOF,
               i |-> from + n]
    ELSE inflate(s, from + n, acc \o SubSeq(s, from + 1, from + n))

\* flate's decompressor reading blocks of s from offset i until the final one:
\* the bytes produced (also those produced before an error), the error (io.EOF
\* after the final block) and the offset reached.  Stored blocks only: the
\* first byte of a block holds BFINAL and BTYPE.
inflate(s, i, acc) ==
    IF i >= Len(s) THEN [data |-> acc, err |-> ErrUnexpectedEOF, i |-> Len(s)]
    ELSE IF (s[i + 1] \div 2) % 4 # 0
         THEN [data |-> acc, err |-> CorruptInputError, i |-> i + 1]
    ELSE IF Len(s) - (i + 1) < 4
         THEN [data |-> acc, err |-> ErrUnexpectedEOF, i |-> Len(s)]
    ELSE inflate_stored(s, i + 5, FromLE16(SubSeq(s, i + 2, i + 3)),
                        FromLE16(SubSeq(s, i + 4, i + 5)), s[i + 1] % 2 = 1, acc)

\* What gzip.Reader.Read returns to io.ReadAll when it stops: the reader with
\* its error set, the underlying bytes.Reader at offset i, the bytes read.
stopped(z, rd, i, data, err) ==
    [z |-> [z EXCEPT !.err = err], rd |-> [rd EXCEPT !.i = i], data |-> data,
     err |-> err]

RECURSIVE readMember(_, _, _)

\* gzip.Reader.Read after a member's trailer was found good: the next header
\* (multistream), h being what readHeader returned.
readMember_next(z, rd, data, h) ==
    IF h.err # Nil THEN stopped(z, rd, h.i, data, h.err)
    ELSE readMember([z EXCEPT !.decompressor = [err |-> Nil]],
                    [rd EXCEPT !.i = h.i], data)

\* gzip.Reader.Read after the decompressor returned ferr: the trailer's
\* checksum and size against the reader's digest and size.
readMember_trailer(z, rd, data, ferr) ==
    IF ferr # EOF THEN stopped(z, rd, rd.i, data, ferr)
    ELSE IF Len(rd.s) - rd.i < 8 THEN stopped(z, rd, Len(rd.s), data, ErrUnexpectedEOF)
    ELSE IF \/ SubSeq(rd.s, rd.i + 1, rd.i + 4) # crc32Bytes(z.digest)
            \/ SubSeq(rd.s, rd.i + 5, rd.i + 8) # LE32(z.size)
         THEN stopped(z, rd, rd.i + 8, data, ErrChecksum)
    ELSE readMember_next([z EXCEPT !.digest = crc32Zero, !.size = 0], rd, data,
                         readHeader([rd EXCEPT !.i = @ + 8]))

\* gzip.Reader.Read with what the decompressor produced, f: digest and size
\* take in the bytes.
readMember_inflated(z, rd, acc, f) ==
    readMember_trailer(
        [z EXCEPT !.digest = crc32Update(@, f.data), !.size = @ + Len(f.data),
                  !.decompressor = [err |-> f.err]],
        [rd EXCEPT !.i = f.i], acc \o f.data, f.err)

\* gzip.Reader.Read, called until it returns an error, on a reader z with
\* z.err = nil over the bytes rd: one member's body and trailer, then the next
\* header.  Returns the reader, the underlying bytes.Reader, the bytes read
\* and the error that ended the reading.
readMember(z, rd, acc) == readMember_inflated(z, rd, acc, inflate(rd.s, rd.i, <<>>))

\* The bytes.Reader a gzip.Reader reads from: g.bytesReader, or a reader the
\* instance no longer holds, which is read to its end.
underlying(g) ==
    IF g.gzipReader.r = "bytesReader" /\ ~IsNil(g.bytesReader) THEN g.bytesReader
    ELSE bytesNewReader(<<>>)

\* io.ReadAll, once the reading stopped with m: io.EOF ends it without an
\* error, any other error is returned with the bytes read.
ioReadAll_done(g, m) ==
    [g |-> IF g.gzipReader.r = "bytesReader"
           THEN [g EXCEPT !.gzipReader = m.z, !.bytesReader = m.rd]
           ELSE [g EXCEPT !.gzipReader = m.z],
     data |-> m.data,
     err |-> IF m.err = EOF THEN Nil ELSE m.err]

\* io.ReadAll(g.gzipReader): every byte up to the first error.
ioReadAll(g) ==
    IF g.gzipReader.err # Nil
    THEN [g |-> g, data |-> <<>>,
          err |-> IF g.gzipReader.err = EOF THEN Nil ELSE g.gzipReader.err]
    ELSE ioReadAll_done(g, readMember(g.gzipReader, underlying(g), <<>>))

\* gzip.Reader.Reset, with what readHeader returned, h: the reader is cleared
\* but for its decompressor, which a good header resets.
gzipReaderReset_header(g, z, h) ==
    [g |-> [g EXCEPT !.bytesReader.i = h.i],
     z |-> [r |-> "bytesReader", err |-> h.err, digest |-> crc32Zero, size |-> 0,
            multistream |-> TRUE,
            decompressor |-> IF h.err = Nil THEN [err |-> Nil] ELSE z.decompressor],
     err |-> h.err]

\* gzip.Reader.Reset(g.bytesReader) on the reader z.
gzipReaderReset(g, z) == gzipReaderReset_header(g, z, readHeader(g.bytesReader))

\* gzip.NewReader, with what Reset returned: nil on an error.
gzipNewReader_done(r) ==
    [g |-> r.g, z |-> IF r.err # Nil THEN NilPtr ELSE r.z, err |-> r.err]

\* gzip.NewReader(g.bytesReader): new(Reader), then Reset.
gzipNewReader(g) == gzipNewReader_done(gzipReaderReset(g, [decompressor |-> NilPtr]))

\* gzip.Reader.Close: the decompressor's Close, nil once it has reached io.EOF.
gzipReaderClose(g) ==
    IF IsNil(g.gzipReader.decompressor) THEN NilDeref
    ELSE IF g.gzipReader.decompressor.err = EOF THEN Nil
    ELSE g.gzipReader.decompressor.err

\* A gzip.Reader left bound to a bytes.Reader the instance has replaced.  No
\* method reads through it before rebinding it, so the counters of its
\* unfinished read are not tracked further.
detach(z) ==
    IF IsNil(z) THEN z
    ELSE [z EXCEPT !.r = "detached", !.digest = crc32Zero, !.size = 0]

\* resetReader's first branch that also sets readerInitialised once the
\* decoder is constructed, so that later calls take the reset branch with its
\* tolerated io.EOF.
resetReader_setsInitialised(n) ==
    IF n.err # Nil THEN [g |-> n.g, err |-> n.err]
    ELSE [g |-> [n.g EXCEPT !.gzipReader = n.z, !.readerInitialised = TRUE],
          err |-> Nil]

\* resetReader's first branch without the test of gzip.NewReader's error: the
\* nil decoder is stored and no error returned.
resetReader_ignoresError(n) == [g |-> [n.g EXCEPT !.gzipReader = n.z], err |-> Nil]

\* resetReader, first branch, after gzip.NewReader returned n.
resetReader_constructed(n) ==
    IF n.err # Nil THEN [g |-> n.g, err |-> n.err]
    ELSE [g |-> [n.g EXCEPT !.gzipReader = n.z], err |-> Nil]

\* resetReader, second branch, after gzipReader.Reset returned n: io.EOF is
\* not an error.
resetReader_rebound(n) ==
    IF n.err # Nil /\ n.err # EOF
    THEN [g |-> [n.g EXCEPT !.gzipReader = n.z], err |-> n.err]
    ELSE [g |-> [n.g EXCEPT !.gzipReader = n.z], err |-> Nil]

\* resetReader
resetReader(g, msg) ==
    IF ~g.readerInitialised
    THEN resetReader_constructed(
             gzipNewReader([g EXCEPT !.bytesReader = bytesNewReader(msg),
                                     !.gzipReader = detach(@),
                                     !.did = @ \o <<"bytes.NewReader", "gzip.NewReader">>]))
    ELSE IF IsNil(g.bytesReader) \/ IsNil(g.gzipReader) THEN [g |-> g, err |-> NilDeref]
    ELSE resetReader_rebound(
             gzipReaderReset(
                 [g EXCEPT !.bytesReader = bytesNewReader(msg),
                           !.did = @ \o <<"bytes.Reader.Reset", "gzip.Reader.Reset">>],
                 g.gzipReader))

\* Decompress, after gzipReader.Close() returned e: a copy of the bytes read.
Decompress_afterClose(a, e) ==
    IF e # Nil THEN failed(a.g, e)
    ELSE [g |-> a.g, out |-> copyOf(a.data), err |-> Nil]

\* Decompress that hands back what io.ReadAll read before its error.
Decompress_partial(a) ==
    IF a.err # Nil THEN [g |-> a.g, out |-> copyOf(a.data), err |-> a.err]
    ELSE Decompress_afterClose(a, gzipReaderClose(a.g))

\* Decompress, after io.ReadAll returned a.
Decompress_afterRead(a) ==
    IF a.err # Nil THEN failed(a.g, a.err)
    ELSE Decompress_afterClose(a, gzipReaderClose(a.g))

\* Decompress, after resetReader returned r.
Decompress_afterReset(r) ==
    IF r.err # Nil THEN failed(r.g, r.err)
    ELSE IF IsNil(r.g.gzipReader) THEN failed(r.g, NilDeref)
    ELSE Decompress_afterRead(ioReadAll(r.g))

\* Decompress
Decompress(g, msg) == Decompress_afterReset(resetReader(g, msg))

\* IsDecompressable that also looks at the first byte of the input.
IsDecompressable_byContent(msg) == Len(msg) > 10 /\ msg[1] = 65

\* IsDecompressable
IsDecompressable(msg) == Len(msg) > 10

\* IsCompressable with the threshold itself counted as worth compressing.
IsCompressable_atThreshold(msg) == Len(msg) >= compressionThresholdBytes

\* IsCompressable
IsCompressable(msg) == Len(msg) > compressionThresholdBytes

----------------------------------------------------------------------------
(* Inputs *)

RECURSIVE SeqsUpTo(_)
\* Every byte sequence over Alphabet of length at most n.
SeqsUpTo(n) ==
    IF n = 0 THEN {<<>>}
    ELSE LET shorter == SeqsUpTo(n - 1)
         IN shorter \cup {Append(m, b) : m \in {x \in shorter : Len(x) = n - 1},
                                        b \in Alphabet}

\* Messages below the compression threshold, enumerated exhaustively.
ShortMsgs == SeqsUpTo(MaxLen)

\* Messages at and one above the compression threshold.
LongMsgs == {Fill(compressionThresholdBytes + d, 65) : d \in {0, 1}}

\* The long message whose encoding is cut and corrupted.
LongProbed == {Fill(compressionThresholdBytes + 1, 65)}

Msgs == ShortMsgs \cup LongMsgs

\* What Compress returns for m on a new instance.
Encoded(m) == Compress(NewCompressor, m).out.bytes

\* Each message with its encoding.
ValidPairs == {<<m, Encoded(m)>> : m \in Msgs}

ValidInputs == {v[2] : v \in ValidPairs}

\* The messages whose encodings are cut and corrupted byte by byte.
Probed == {<<>>, Fill(MaxLen, 66)}

\* s with the byte at position k inverted.
Flip(s, k) == [s EXCEPT ![k] = 255 - @]

\* Proper prefixes of valid outputs (the empty one included).
TruncatedInputs ==
    UNION {{Take(Encoded(m), n) : n \in 0..(Len(m) + 22)} : m \in Probed}
        \cup {Take(Encoded(m), Len(m) + 23 - k) : m \in LongProbed, k \in {9}}

\* Valid outputs with one byte of the 8-byte trailer inverted.
CorruptTrailerInputs ==
    {Flip(Encoded(m), Len(m) + 23 - k) : m \in Probed, k \in 0..7}
        \cup {Flip(Encoded(m), Len(m) + 23 - k) : m \in LongProbed, k \in {0}}

\* Bytes that are no gzip stream: no header, a header followed by a bad block,
\* a valid output followed by bytes that are no further member.
ArbitraryInputs ==
    {<<65>>, Fill(10, 65), Fill(11, 65), Fill(23, 0),
     gzipHeader \o Fill(13, 65), gzipHeader \o <<7>>,
     Encoded(<<65>>) \o <<65>>, Encoded(<<65>>) \o Fill(10, 65)}

InvalidInputs == TruncatedInputs \cup CorruptTrailerInputs \cup ArbitraryInputs

\* Two valid outputs one after the other: a gzip stream of two members.
ConcatInputs == {Encoded(<<65>>) \o Encoded(<<66>>)}

Inputs == ValidInputs \cup InvalidInputs \cup ConcatInputs

----------------------------------------------------------------------------
(* The state machine *)

\* The callers that share the instance, and the lock's value when it is free.
Callers == {"caller 1", "caller 2"}

NoOne == "no one"

\* A caller outside any call, with no result yet.
idleCaller == [pc |-> "idle", arg |-> <<>>, err |-> Nil, ret |-> NilPtr]

\* What the single caller's calls on the one instance leave alone.
others == <<peer, lastPeer, lock, callers>>

\* The fields Compress works on and the fields Decompress works on.
writeSide == <<writerInitialised, writeBuffer, gzipWriter>>

readSide == <<readerInitialised, bytesReader, gzipReader>>

\* The instance as the record the operators take.
Self ==
    [writerInitialised |-> writerInitialised, readerInitialised |-> readerInitialised,
     writeBuffer |-> writeBuffer, gzipWriter |-> gzipWriter,
     bytesReader |-> bytesReader, gzipReader |-> gzipReader,
     did |-> <<>>]

\* The instance after a call.
Becomes(g) ==
    /\ writerInitialised' = g.writerInitialised
    /\ readerInitialised' = g.readerInitialised
    /\ writeBuffer' = g.writeBuffer
    /\ gzipWriter' = g.gzipWriter
    /\ bytesReader' = g.bytesReader
    /\ gzipReader' = g.gzipReader

\* What a slice the caller holds shows once the instance is in state g: a
\* slice over the write buffer's array shows what later writes put there.
seenThrough(h, g) ==
    IF IsNil(h) \/ h.slice.mem # "writeBuffer" \/ IsNil(g.writeBuffer) THEN h
    ELSE LET b == g.writeBuffer.buf
             n == Len(h.slice.bytes)
         IN [h EXCEPT !.slice.bytes = Take(b, n) \o Drop(@, Len(b))]

\* The caller either keeps the slice a call returned or goes on holding the
\* one it kept before.
Holds(keep, out, g) ==
    IF keep /\ ~IsNil(out) THEN [slice |-> out, snap |-> out.bytes]
    ELSE seenThrough(held, g)

Init ==
    /\ writerInitialised = NewCompressor.writerInitialised
    /\ readerInitialised = NewCompressor.readerInitialised
    /\ writeBuffer = NewCompressor.writeBuffer
    /\ gzipWriter = NewCompressor.gzipWriter
    /\ bytesReader = NewCompressor.bytesReader
    /\ gzipReader = NewCompressor.gzipReader
    /\ lastCompress = NilPtr
    /\ lastDecompress = NilPtr
    /\ lastCheck = NilPtr
    /\ held = NilPtr
    /\ peer = NewCompressor
    /\ lastPeer = NilPtr
    /\ lock = NoOne
    /\ callers = [c \in Callers |-> idleCaller]

\* A call's record: what was passed, what came back and what the call built
\* or reset.
Record(arg, c) == [arg |-> arg, out |-> c.out, err |-> c.err, did |-> c.g.did]

\* g.Compress(msg), msg drawn from msgs; the caller keeps the result if keep.
CompressCall(msgs, keeps) ==
    \E msg \in msgs, keep \in keeps :
        LET c == Compress(Self, msg) IN
        /\ Becomes(c.g)
        /\ lastCompress' = Record(msg, c)
        /\ held' = Holds(keep, c.out, c.g)
        /\ UNCHANGED <<lastDecompress, lastCheck, others>>

\* g.Decompress(msg), msg drawn from msgs; the caller keeps the result if keep.
DecompressCall(msgs, keeps) ==
    \E msg \in msgs, keep \in keeps :
        LET d == Decompress(Self, msg) IN
        /\ Becomes(d.g)
        /\ lastDecompress' = Record(msg, d)
        /\ held' = Holds(keep, d.out, d.g)
        /\ UNCHANGED <<lastCompress, lastCheck, others>>

instance == <<writerInitialised, readerInitialised, writeBuffer, gzipWriter,
              bytesReader, gzipReader>>

\* g.IsCompressable(msg)
IsCompressableCall(msgs) ==
    \E msg \in msgs :
        /\ lastCheck' = [op |-> "IsCompressable", arg |-> msg,
                         result |-> IsCompressable(msg)]
        /\ UNCHANGED <<instance, lastCompress, lastDecompress, held, others>>

\* g.IsDecompressable(msg)
IsDecompressableCall(msgs) ==
    \E msg \in msgs :
        /\ lastCheck' = [op |-> "IsDecompressable", arg |-> msg,
                         result |-> IsDecompressable(msg)]
        /\ UNCHANGED <<instance, lastCompress, lastDecompress, held, others>>

\* One caller, any sequence of Compress and Decompress calls on one instance.
Next ==
    \/ CompressCall(Msgs, {FALSE})
    \/ DecompressCall(Inputs, {FALSE})

Spec == Init /\ [][Next]_vars

\* The arguments of the two predicates: lengths around the header length and
\* around the compression threshold.
CheckLens ==
    0..(gzipHeaderLen + MaxLen)
        \cup (compressionThresholdBytes - MaxLen)..(compressionThresholdBytes + MaxLen)

CheckMsgs == {Fill(n, b) : n \in CheckLens, b \in Alphabet}

\* The predicates called between Compress and Decompress calls.
NextChecks ==
    \/ IsCompressableCall(CheckMsgs)
    \/ IsDecompressableCall(CheckMsgs)
    \/ CompressCall({<<65>>, <<66, 66>>}, {FALSE})
    \/ DecompressCall({Encoded(<<65>>), <<>>}, {FALSE})

SpecChecks == Init /\ [][NextChecks]_vars

\* What the caller that keeps results decompresses.
KeepInputs ==
    {Encoded(m) : m \in ShortMsgs} \cup {<<>>, Take(Encoded(<<65>>), 23)}

\* A caller that keeps some of the slices the calls return.
NextKeep ==
    \/ CompressCall(ShortMsgs, BOOLEAN)
    \/ DecompressCall(KeepInputs, BOOLEAN)

SpecKeep == Init /\ [][NextKeep]_vars

----------------------------------------------------------------------------
(* Two instances, each of its own process: what one compresses the other    *)
(* decompresses.                                                            *)

\* What the first instance compresses.
PeerMsgs == {<<65>>, Fill(MaxLen, 66), Fill(compressionThresholdBytes + 1, 65)}

\* What the first instance decompresses before and between its Compress calls.
PeerHistory == {Encoded(<<65>>), <<>>}

\* What the second instance decompresses: the first one's outputs, and inputs
\* that fail at the header and inside the data.
PeerInputs ==
    {Encoded(m) : m \in PeerMsgs} \cup {<<>>, Take(Encoded(<<65>>), 12)}

\* The second instance as the record the operators take.
Peer == [peer EXCEPT !.did = <<>>]

\* peer.Compress(msg)
PeerCompressCall(msgs) ==
    \E msg \in msgs :
        /\ peer' = [Compress(Peer, msg).g EXCEPT !.did = <<>>]
        /\ UNCHANGED <<instance, lastCompress, lastDecompress, lastCheck, held,
                       lastPeer, lock, callers>>

\* peer.Decompress(msg)
PeerDecompressCall(msgs) ==
    \E msg \in msgs :
        LET d == Decompress(Peer, msg) IN
        /\ peer' = [d.g EXCEPT !.did = <<>>]
        /\ lastPeer' = Record(msg, d)
        /\ UNCHANGED <<instance, lastCompress, lastDecompress, lastCheck, held,
                       lock, callers>>

NextPeers ==
    \/ CompressCall(PeerMsgs, {FALSE})
    \/ DecompressCall(PeerHistory, {FALSE})
    \/ PeerCompressCall({<<66>>})
    \/ PeerDecompressCall(PeerInputs)

SpecPeers == Init /\ [][NextPeers]_vars

----------------------------------------------------------------------------
(* Several callers share the one instance and take a lock around each call.  *)
(* A call is two steps, so that without the lock the steps of two calls      *)
(* could interleave: resetWriter, then the rest of Compress; resetReader,     *)
(* then the rest of Decompress.                                              *)

\* What the callers compress and decompress.
SharedMsgs == {<<65>>, Fill(MaxLen, 66)}

SharedInputs == {Encoded(<<65>>), Take(Encoded(<<65>>), 12), <<>>}

\* What a caller holds from its last call once the instance is in state g.
viewOf(h, g) == IF IsNil(h) \/ IsNil(h.slice) THEN h ELSE seenThrough(h, g)

\* What a call returned to its caller: the error, the slice, and the bytes
\* the slice showed when it was returned.
returned(op, arg, c) ==
    [op |-> op, arg |-> arg, err |-> c.err, slice |-> c.out,
     snap |-> IF IsNil(c.out) THEN NilPtr ELSE c.out.bytes]

\* The callers once the instance is in state g and caller c has become now.
after(c, now, g) ==
    [d \in Callers |->
        IF d = c THEN now ELSE [callers[d] EXCEPT !.ret = viewOf(@, g)]]

\* What the callers' steps leave alone.
single == <<lastCompress, lastDecompress, lastCheck, held, peer, lastPeer>>

\* mu.Lock(): waits until no caller holds the lock.
Lock(c) ==
    /\ callers[c].pc = "idle"
    /\ lock = NoOne
    /\ lock' = c
    /\ callers' = [callers EXCEPT ![c].pc = "locked"]
    /\ UNCHANGED <<instance, single>>

\* mu.Unlock(), after the call returned.
Unlock(c) ==
    /\ callers[c].pc = "called"
    /\ lock' = NoOne
    /\ callers' = [callers EXCEPT ![c].pc = "idle"]
    /\ UNCHANGED <<instance, single>>

\* g.Compress(msg) by caller c, up to resetWriter's return.
CompressBegin(c, msgs) ==
    /\ callers[c].pc = "locked"
    /\ \E msg \in msgs :
           LET g == resetWriter(Self) IN
           /\ Becomes(g)
           /\ callers' = after(c, [callers[c] EXCEPT !.pc = "Compress", !.arg = msg], g)
    /\ UNCHANGED <<lock, single>>

\* g.Compress(msg) by caller c, from gzipWriter.Write to the return.
CompressEnd(c) ==
    /\ callers[c].pc = "Compress"
    /\ LET r == Compress_afterReset(Self, callers[c].arg) IN
       /\ Becomes(r.g)
       /\ callers' = after(c, [callers[c] EXCEPT
                                  !.pc = "called",
                                  !.ret = returned("Compress", callers[c].arg, r)],
                           r.g)
    /\ UNCHANGED <<lock, single>>

\* g.Decompress(msg) by caller c, up to resetReader's return.
DecompressBegin(c, msgs) ==
    /\ callers[c].pc = "locked"
    /\ \E msg \in msgs :
           LET r == resetReader(Self, msg) IN
           /\ Becomes(r.g)
           /\ callers' = after(c, [callers[c] EXCEPT !.pc = "Decompress", !.arg = msg,
                                                     !.err = r.err], r.g)
    /\ UNCHANGED <<lock, single>>

\* g.Decompress(msg) by caller c, from resetReader's error to the return.
DecompressEnd(c) ==
    /\ callers[c].pc = "Decompress"
    /\ LET r == Decompress_afterReset([g |-> Self, err |-> callers[c].err]) IN
       /\ Becomes(r.g)
       /\ callers' = after(c, [callers[c] EXCEPT
                                  !.pc = "called",
                                  !.err = Nil,
                                  !.ret = returned("Decompress", callers[c].arg, r)],
                           r.g)
    /\ UNCHANGED <<lock, single>>

NextShared ==
    \E c \in Callers :
        \/ Lock(c)
        \/ CompressBegin(c, SharedMsgs)
        \/ CompressEnd(c)
        \/ DecompressBegin(c, SharedInputs)
        \/ DecompressEnd(c)
        \/ Unlock(c)

SpecShared == Init /\ [][NextShared]_vars

----------------------------------------------------------------------------
(* What the calls did *)

Constructed(did) ==
    did \in {<<"new bytes.Buffer", "gzip.NewWriter">>,
             <<"bytes.NewReader", "gzip.NewReader">>}

WasReset(did) ==
    did \in {<<"Buffer.Reset", "Writer.Reset">>,
             <<"bytes.Reader.Reset", "gzip.Reader.Reset">>}

IsPrefix(s, t) == Len(s) <= Len(t) /\ SubSeq(t, 1, Len(s)) = s

\* A call's outcome is a result with a nil error or no result with an error.
OneOutcome(r) ==
    \/ r.err = Nil /\ ~IsNil(r.out)
    \/ r.err # Nil /\ IsNil(r.out)

\* C1: Compress succeeds on every message, whatever its length and whatever
\* the instance did before, and whenever the last Decompress was given the
\* bytes the last Compress returned, it succeeded and returned the message.
C1_RoundTrip ==
    /\ ~IsNil(lastCompress) => lastCompress.err = Nil /\ ~IsNil(lastCompress.out)
    /\ (/\ ~IsNil(lastCompress)
        /\ ~IsNil(lastDecompress)
        /\ ~IsNil(lastCompress.out)
        /\ lastDecompress.arg = lastCompress.out.bytes)
           => /\ lastDecompress.err = Nil
              /\ ~IsNil(lastDecompress.out)
              /\ lastDecompress.out.bytes = lastCompress.arg

\* A message above the threshold, compressed by an instance that had compressed
\* before, has been decompressed to itself.
C1_Witness ==
    /\ ~IsNil(lastCompress)
    /\ ~IsNil(lastDecompress)
    /\ WasReset(lastCompress.did)
    /\ Len(lastCompress.arg) > compressionThresholdBytes
    /\ ~IsNil(lastCompress.out)
    /\ lastDecompress.arg = lastCompress.out.bytes
    /\ ~IsNil(lastDecompress.out)
    /\ lastDecompress.out.bytes = lastCompress.arg

\* C2: whatever the instance did before, the last Compress and the last
\* Decompress returned what the same call returns on a new instance.
C2_SameAsFresh ==
    /\ ~IsNil(lastCompress) =>
           LET f == Compress(NewCompressor, lastCompress.arg)
           IN lastCompress.out = f.out /\ lastCompress.err = f.err
    /\ ~IsNil(lastDecompress) =>
           LET f == Decompress(NewCompressor, lastDecompress.arg)
           IN lastDecompress.out = f.out /\ lastDecompress.err = f.err

\* A one-byte message compressed into the reused buffer, on an instance whose
\* reader has been through a failed and a successful Decompress.
C2_Witness ==
    /\ ~IsNil(lastCompress)
    /\ WasReset(lastCompress.did)
    /\ lastCompress.arg = <<65>>
    /\ ~IsNil(lastDecompress)
    /\ lastDecompress.err # Nil
    /\ ~IsNil(gzipReader)

\* C3: a Decompress of bytes that are no valid stream (truncated or corrupted
\* outputs, arbitrary bytes) returned an error and no data.
C3_InvalidRejected ==
    (~IsNil(lastDecompress) /\ lastDecompress.arg \in InvalidInputs)
        => lastDecompress.err # Nil /\ IsNil(lastDecompress.out)

\* The empty input rejected by an instance that had decompressed before.
C3_Witness ==
    /\ ~IsNil(lastDecompress)
    /\ lastDecompress.arg = <<>>
    /\ lastDecompress.err = EOF
    /\ IsNil(lastDecompress.out)
    /\ ~IsNil(gzipReader)

\* C5: the first Decompress leaves the read side bound (readerInitialised),
\* and every later Decompress resets the reader and the decoder it finds
\* instead of constructing new ones.
C5_ReadSideBound ==
    [][lastDecompress' # lastDecompress =>
           /\ readerInitialised'
           /\ IF IsNil(lastDecompress) THEN Constructed(lastDecompress'.did)
              ELSE WasReset(lastDecompress'.did)]_vars

\* C6: the write side starts uninitialized; the first Compress constructs the
\* buffer and the encoder and sets writerInitialised; writerInitialised is
\* never cleared, and every later Compress resets what it finds.
C6_WriteSideBound ==
    /\ ~writerInitialised /\ IsNil(writeBuffer) /\ IsNil(gzipWriter)
    /\ [][/\ writerInitialised => writerInitialised'
          /\ lastCompress' # lastCompress =>
                 /\ writerInitialised'
                 /\ ~IsNil(writeBuffer') /\ ~IsNil(gzipWriter')
                 /\ IF IsNil(lastCompress) THEN Constructed(lastCompress'.did)
                    ELSE WasReset(lastCompress'.did)]_vars

\* A Compress that reset the buffer and the encoder of an earlier call.
C6_Witness ==
    /\ writerInitialised
    /\ ~IsNil(lastCompress)
    /\ WasReset(lastCompress.did)

\* C9: in every state the instance can reach, a Compress of any message
\* succeeds and a Decompress of any valid output succeeds and returns the
\* message it encodes.
C9_StaysUsable ==
    \A v \in ValidPairs :
        LET c == Compress(Self, v[1])
            d == Decompress(Self, v[2])
        IN /\ c.err = Nil /\ ~IsNil(c.out) /\ c.out.bytes = v[2]
           /\ d.err = Nil /\ ~IsNil(d.out) /\ d.out.bytes = v[1]

\* An instance that has compressed twice and whose every Decompress so far
\* failed before a decoder was built.
C9_Witness ==
    /\ ~IsNil(lastCompress)
    /\ WasReset(lastCompress.did)
    /\ ~IsNil(lastDecompress)
    /\ lastDecompress.err # Nil
    /\ IsNil(gzipReader)

\* C10: every call ended with a result and a nil error or with no result and
\* an error, and a Decompress that succeeded on a prefix of a valid output
\* returned the whole message, never a part of it.
C10_AllOrNothing ==
    /\ ~IsNil(lastCompress) => OneOutcome(lastCompress)
    /\ ~IsNil(lastDecompress) =>
           /\ OneOutcome(lastDecompress)
           /\ lastDecompress.err = Nil =>
                  \A v \in ValidPairs :
                      IsPrefix(lastDecompress.arg, v[2])
                          => lastDecompress.out.bytes = v[1]

\* A Decompress of an output cut inside its data, where the decoder had read
\* part of the message before the error: an error and no result.
C10_Witness ==
    /\ ~IsNil(lastDecompress)
    /\ \E m \in LongProbed : lastDecompress.arg = Take(Encoded(m), Len(m) + 14)
    /\ lastDecompress.err = ErrUnexpectedEOF
    /\ IsNil(lastDecompress.out)

\* C4: a slice the caller kept from a Compress or a Decompress shows the
\* bytes it showed when it was returned, whatever calls came after.
C4_ResultOwned == ~IsNil(held) => held.slice.bytes = held.snap

\* The caller holds the output of an earlier Compress while the instance's
\* buffer holds the different output of a later one.
C4_Witness ==
    /\ ~IsNil(held)
    /\ held.snap \in ValidInputs
    /\ ~IsNil(lastCompress)
    /\ WasReset(lastCompress.did)
    /\ ~IsNil(lastCompress.out)
    /\ lastCompress.out.bytes # held.snap
    /\ writeBuffer.buf # held.snap

\* C7: IsDecompressable is false for an input shorter than the gzip header
\* and true for an input of the header's length or longer.
C7_DecompressableFloor ==
    (~IsNil(lastCheck) /\ lastCheck.op = "IsDecompressable")
        => (lastCheck.result <=> Len(lastCheck.arg) >= gzipHeaderLen)

\* C8: IsCompressable is false for an input of at most
\* compressionThresholdBytes bytes and true for a longer one.
C8_CompressableThreshold ==
    (~IsNil(lastCheck) /\ lastCheck.op = "IsCompressable")
        => /\ Len(lastCheck.arg) <= compressionThresholdBytes => ~lastCheck.result
           /\ Len(lastCheck.arg) > compressionThresholdBytes => lastCheck.result

\* IsCompressable has answered false for an input of exactly the threshold
\* length, on an instance that has compressed.
C8_Witness ==
    /\ ~IsNil(lastCheck)
    /\ lastCheck.op = "IsCompressable"
    /\ Len(lastCheck.arg) = compressionThresholdBytes
    /\ ~lastCheck.result
    /\ writerInitialised

\* C11: what Compress returned on one instance, Decompress on another instance
\* turns back into the message, whatever calls either instance served before:
\* so it was for the calls made, and so it would be for every message from
\* the states the two instances are in.
C11_AcrossInstances ==
    /\ (/\ ~IsNil(lastCompress)
        /\ ~IsNil(lastPeer)
        /\ ~IsNil(lastCompress.out)
        /\ lastPeer.arg = lastCompress.out.bytes)
           => /\ lastPeer.err = Nil
              /\ ~IsNil(lastPeer.out)
              /\ lastPeer.out.bytes = lastCompress.arg
    /\ \A m \in PeerMsgs :
           LET c == Compress(Self, m)
           IN /\ c.err = Nil
              /\ ~IsNil(c.out)
              /\ Decompress(Peer, c.out.bytes).err = Nil
              /\ Decompress(Peer, c.out.bytes).out = copyOf(m)

\* The second instance, which has compressed and whose decoder was built by an
\* earlier call, has decompressed the long message the first instance
\* compressed into its reused buffer after a failed Decompress of its own.
C11_Witness ==
    /\ ~IsNil(lastCompress)
    /\ WasReset(lastCompress.did)
    /\ Len(lastCompress.arg) > compressionThresholdBytes
    /\ ~IsNil(lastDecompress)
    /\ lastDecompress.err # Nil
    /\ peer.writerInitialised
    /\ ~IsNil(lastPeer)
    /\ lastPeer.arg = lastCompress.out.bytes
    /\ lastPeer.err = Nil
    /\ lastPeer.out.bytes = lastCompress.arg

\* C12: a Compress call leaves readerInitialised, bytesReader and gzipReader
\* as they were, and a Decompress call, failed or not, leaves
\* writerInitialised, writeBuffer and gzipWriter as they were.  (A call that
\* repeats the call before it, with the same outcome, leaves the whole
\* instance as it was.)
C12_SidesIndependent ==
    [][/\ lastCompress' # lastCompress => UNCHANGED readSide
       /\ lastDecompress' # lastDecompress => UNCHANGED writeSide
       /\ UNCHANGED <<lastCompress, lastDecompress>> => UNCHANGED instance]_vars

\* A failed Decompress has rebound the reader to its input while the write
\* buffer still holds the output of the Compress before it, made by the reset
\* encoder.
C12_Witness ==
    /\ ~IsNil(lastCompress)
    /\ WasReset(lastCompress.did)
    /\ ~IsNil(lastDecompress)
    /\ lastDecompress.err = ErrChecksum
    /\ ~IsNil(bytesReader)
    /\ bytesReader.s = lastDecompress.arg
    /\ ~IsNil(gzipReader)
    /\ gzipReader.err = ErrChecksum
    /\ writeBuffer.buf = lastCompress.out.bytes
    /\ gzipWriter.closed

\* What the predicate named op answers for msg.
Answer(op, msg) ==
    IF op = "IsCompressable" THEN IsCompressable(msg) ELSE IsDecompressable(msg)

\* C13: a call of IsCompressable or IsDecompressable changes no field of the
\* instance, and its answer is the answer for every other input of the same
\* length, whatever the instance did before; Compress and Decompress do not
\* go through the predicates: they leave the last answer alone, Compress
\* succeeds on messages IsCompressable refuses, and Decompress hands an input
\* IsDecompressable refuses to the decoder and returns the decoder's error.
C13_PredicatesPure ==
    /\ [](~IsNil(lastCheck) =>
              \A m \in CheckMsgs :
                  Len(m) = Len(lastCheck.arg)
                      => Answer(lastCheck.op, m) = lastCheck.result)
    /\ [](~IsNil(lastCompress) =>
              /\ ~IsCompressable(lastCompress.arg)
              /\ lastCompress.err = Nil
              /\ lastCompress.out = copyOf(Encoded(lastCompress.arg)))
    /\ []((~IsNil(lastDecompress) /\ ~IsDecompressable(lastDecompress.arg)) =>
              /\ Constructed(lastDecompress.did)
              /\ lastDecompress.err = EOF)
    /\ [][/\ lastCheck' # lastCheck =>
                 UNCHANGED <<instance, lastCompress, lastDecompress>>
          /\ (lastCompress' # lastCompress \/ lastDecompress' # lastDecompress)
                 => UNCHANGED lastCheck
          /\ UNCHANGED <<lastCheck, lastCompress, lastDecompress>>
                 => UNCHANGED instance]_vars

\* IsDecompressable has answered true for an eleven-byte input on an instance
\* whose Compress succeeded and whose last Decompress failed.
C13_Witness ==
    /\ ~IsNil(lastCheck)
    /\ lastCheck.op = "IsDecompressable"
    /\ lastCheck.result
    /\ Len(lastCheck.arg) = gzipHeaderLen + 1
    /\ writerInitialised
    /\ ~IsNil(lastDecompress)
    /\ lastDecompress.err = EOF
    /\ ~IsNil(bytesReader)

\* What the call a caller made returns when made alone on a new instance.
Alone(ret) ==
    IF ret.op = "Compress" THEN Compress(NewCompressor, ret.arg)
    ELSE Decompress(NewCompressor, ret.arg)

\* C14: with every call made under the callers' lock, whatever the order in
\* which the callers take it, each call returned what the same call returns
\* alone on a new instance, and what a caller holds from its last call still
\* shows the bytes it was returned with, whatever the other callers did since.
C14_SharedUnderLock ==
    \A c \in Callers :
        ~IsNil(callers[c].ret) =>
            /\ callers[c].ret.err = Alone(callers[c].ret).err
            /\ callers[c].ret.snap =
                   IF IsNil(Alone(callers[c].ret).out) THEN NilPtr
                   ELSE Alone(callers[c].ret).out.bytes
            /\ ~IsNil(callers[c].ret.slice)
                   => callers[c].ret.slice.bytes = callers[c].ret.snap

\* One caller holds the output of its Compress while the other, holding the
\* lock, has since compressed a different message into the same buffer and
\* the instance has served a Decompress in between.
C14_Witness ==
    /\ callers["caller 1"].pc = "idle"
    /\ ~IsNil(callers["caller 1"].ret)
    /\ callers["caller 1"].ret.op = "Compress"
    /\ lock = "caller 2"
    /\ callers["caller 2"].pc = "called"
    /\ ~IsNil(callers["caller 2"].ret)
    /\ callers["caller 2"].ret.op = "Compress"
    /\ callers["caller 2"].ret.arg # callers["caller 1"].ret.arg
    /\ writeBuffer.buf = callers["caller 2"].ret.snap
    /\ ~IsNil(bytesReader)

\* C15: a Decompress on an instance whose decoder an earlier call has bound
\* rebinds that decoder to the new input; when the decoder's reset reports
\* the end of the stream (io.EOF: no header to read) the error is tolerated
\* and is not what the call returns, and any other error of the reset is
\* returned as it is, with no result.
C15_ResetTolerant ==
    [][(/\ lastDecompress' # lastDecompress
        /\ ~IsNil(bytesReader)
        /\ ~IsNil(gzipReader))
           => /\ readHeader(bytesNewReader(lastDecompress'.arg)).err = EOF
                     => lastDecompress'.err # EOF
              /\ readHeader(bytesNewReader(lastDecompress'.arg)).err \notin {Nil, EOF}
                     => /\ lastDecompress'.err =
                               readHeader(bytesNewReader(lastDecompress'.arg)).err
                        /\ IsNil(lastDecompress'.out)]_vars

\* C16: in every state the instance reaches, writerInitialised is true
\* exactly when the buffer and the encoder exist and the encoder writes into
\* the buffer; readerInitialised implies that the reader and the decoder
\* exist; whenever resetReader returns no error the decoder it leaves is not
\* nil; and no Compress or Decompress has met a nil buffer, reader, encoder
\* or decoder.
C16_NoNilDereference ==
    /\ writerInitialised <=>
           (/\ ~IsNil(writeBuffer)
            /\ ~IsNil(gzipWriter)
            /\ gzipWriter.w = "writeBuffer")
    /\ readerInitialised => (~IsNil(bytesReader) /\ ~IsNil(gzipReader))
    /\ \A msg \in Inputs :
           LET r == resetReader(Self, msg)
           IN r.err = Nil
                  => /\ ~IsNil(r.g.gzipReader)
                     /\ ~IsNil(r.g.bytesReader)
                     /\ r.g.gzipReader.r = "bytesReader"
    /\ ~IsNil(lastCompress) => lastCompress.err # NilDeref
    /\ ~IsNil(lastDecompress) => lastDecompress.err # NilDeref

\* The encoder exists and writes into the buffer, and the last Decompress read
\* a stream of two members to its end through the decoder over the
\* instance's reader.
C16_Witness ==
    /\ writerInitialised
    /\ gzipWriter.w = "writeBuffer"
    /\ ~IsNil(lastDecompress)
    /\ lastDecompress.err = Nil
    /\ lastDecompress.arg \in ConcatInputs
    /\ ~IsNil(gzipReader)
    /\ gzipReader.r = "bytesReader"
    /\ bytesReader.i = Len(bytesReader.s)

====
